---- MODULE Spec2Model ----
(***************************************************************************)
(* Model of src/src/App.jsx: the chat component (sendMessage), its provider *)
(* gateway (callApi) and the per-provider cost ledger (apiCosts).           *)
(*                                                                          *)
(* Texts are sequences of one-character strings, so that String.length,     *)
(* trim, template literals and containment are computed, not assumed.       *)
(* JavaScript numbers are modelled as exact integers in a fixed unit plus   *)
(* the value NaN (a missing price, a missing token count): costs are kept   *)
(* as numerators over CostDenominator, which makes                          *)
(* (tokenCount / 1000000) * pricePerMillion and the factor 1.3 exact.       *)
(***************************************************************************)
EXTENDS Integers, Sequences, FiniteSets, TLC

\* ------------------------------------------------------------------ bounds
MaxCalls == 2        \* submissions made in one session
MaxTokens == 1       \* largest token count a provider reports
MaxHistory == 3      \* longest history handed to the gateway directly

\* --------------------------------------------------------------- constants
Million == 1000000
TokenScale == 10     \* token counts are kept in tenths: 1.3 = 13 / TokenScale
GeminiFactor == 13   \* the 1.3 characters-to-tokens ratio, in tenths
CostDenominator == TokenScale * Million

\* ------------------------------------------------------------------- texts
LLAMA == <<"L","L","A","M","A">>
CHATGPT == <<"C","H","A","T","G","P","T">>
CLAUDE == <<"C","L","A","U","D","E">>
GEMINI == <<"G","E","M","I","N","I">>
MISTRAL == <<"M","I","S","T","R","A","L">>

models == << [name |-> "Llama 3 Groq 70B Tool Use", key |-> LLAMA, color |-> "#007AFF"],
             [name |-> "ChatGPT 4.0", key |-> CHATGPT, color |-> "#34C759"],
             [name |-> "Claude 3.5 Sonnet", key |-> CLAUDE, color |-> "#5856D6"],
             [name |-> "Gemini 1.5 PRO", key |-> GEMINI, color |-> "#FF9500"] >>

Keys == { models[i].key : i \in 1..Len(models) }

Contains(s, t) ==
  \E i \in 0..(Len(s) - Len(t)) : SubSeq(s, i + 1, i + Len(t)) = t

IsPrefix(s, t) == Len(s) <= Len(t) /\ SubSeq(t, 1, Len(s)) = s

IsSpace(c) == c = " "

RECURSIVE trimStart(_)
trimStart(s) ==
  IF s # <<>> /\ IsSpace(Head(s)) THEN trimStart(Tail(s)) ELSE s

RECURSIVE trimEnd(_)
trimEnd(s) ==
  IF s # <<>> /\ IsSpace(s[Len(s)]) THEN trimEnd(SubSeq(s, 1, Len(s) - 1)) ELSE s

trim(s) == trimEnd(trimStart(s))

\* ----------------------------------------------------------------- numbers
NaN == [nan |-> TRUE, v |-> 0]
Num(k) == [nan |-> FALSE, v |-> k]
Zero == Num(0)

Add(a, b) == IF a.nan \/ b.nan THEN NaN ELSE Num(a.v + b.v)
Mul(a, b) == IF a.nan \/ b.nan THEN NaN ELSE Num(a.v * b.v)
\* a >= b as JavaScript evaluates it: false as soon as one side is NaN
Geq(a, b) == ~a.nan /\ ~b.nan /\ a.v >= b.v

\* a property that may be absent: undefined, or a value
Undefined == [def |-> FALSE, v |-> 0]
Def(x) == [def |-> TRUE, v |-> x]
NoText == [def |-> FALSE, v |-> <<>>]
ToNumber(x) == IF x.def THEN Num(x.v) ELSE NaN

DigitValue(c) ==
  CASE c = "0" -> 0 [] c = "1" -> 1 [] c = "2" -> 2 [] c = "3" -> 3
    [] c = "4" -> 4 [] c = "5" -> 5 [] c = "6" -> 6 [] c = "7" -> 7
    [] c = "8" -> 8 [] c = "9" -> 9 [] OTHER -> -1

RECURSIVE digitsPrefix(_, _, _)
\* the longest prefix of digits of s, read as a number; seen: a digit was read
digitsPrefix(s, acc, seen) ==
  IF s # <<>> /\ DigitValue(Head(s)) >= 0
    THEN digitsPrefix(Tail(s), 10 * acc + DigitValue(Head(s)), TRUE)
    ELSE IF seen THEN Num(acc) ELSE NaN

\* parseFloat of a configuration entry (texts without a fraction or exponent)
parseFloat(x) ==
  IF ~x.def THEN NaN
  ELSE LET s == trimStart(x.v)
       IN IF s # <<>> /\ Head(s) = "-"
            THEN Mul(Num(-1), digitsPrefix(Tail(s), 0, FALSE))
            ELSE IF s # <<>> /\ Head(s) = "+"
              THEN digitsPrefix(Tail(s), 0, FALSE)
              ELSE digitsPrefix(s, 0, FALSE)

\* ----------------------------------------------------------- configuration
VARIABLES env          \* import.meta.env: variable name -> text, or absent

PriceVar(modelKey) ==
  <<"V","I","T","E","_">> \o modelKey
    \o <<"_","P","R","I","C","E","_","P","E","R","_","M","I","L","L","I","O","N">>

\* the texts a price entry is configured with; an entry may also be absent
PriceTexts == { <<"3">>, <<"0">>, <<"-","2">>, <<"t","b","d">> }
PriceEntries == { Def(t) : t \in PriceTexts } \cup { NoText }

envLookup(name) == IF name \in DOMAIN env THEN env[name] ELSE NoText

\* ------------------------------------------------- what the network answers
\* kind "transport": no response was received (message: the transport's text)
\* kind "status":    a non-success status with the error payload data
\* kind "ok":        a success status with the response body
NoData == [error |-> <<>>]
NoBody == [usage |-> FALSE, total_tokens |-> Undefined, input_tokens |-> Undefined,
           output_tokens |-> Undefined, replyPath |-> FALSE, text |-> NoText]

TransportMessage == <<"N","e","t","w","o","r","k"," ","E","r","r","o","r">>
StatusMessage == <<"R","e","q","u","e","s","t"," ","f","a","i","l","e","d">>
TypeErrorMessage == <<"C","a","n","n","o","t"," ","r","e","a","d">>
InvalidModelMessage ==
  <<"I","n","v","a","l","i","d"," ","m","o","d","e","l"," ",
    "s","e","l","e","c","t","e","d">>
StatusCode == <<"4","0","1">>

Payloads == { [error |-> <<"k","e","y">>] }
ReplyText == Def(<<"o","k">>)
TokenCounts == { Def(n) : n \in 0..MaxTokens }

\* bodies of the OpenAI chat-completions shape (Groq, OpenAI): the well-formed
\* ones, then one with each expected field missing
OpenAIBodies ==
  { [NoBody EXCEPT !.usage = TRUE, !.total_tokens = n, !.replyPath = TRUE,
                   !.text = ReplyText] : n \in TokenCounts }
    \cup { [NoBody EXCEPT !.replyPath = TRUE, !.text = ReplyText],
           [NoBody EXCEPT !.usage = TRUE, !.replyPath = TRUE, !.text = ReplyText],
           [NoBody EXCEPT !.usage = TRUE, !.total_tokens = Def(1)],
           [NoBody EXCEPT !.usage = TRUE, !.total_tokens = Def(1), !.replyPath = TRUE] }

\* bodies of the Anthropic messages shape
ClaudeBodies ==
  { [NoBody EXCEPT !.usage = TRUE, !.input_tokens = i, !.output_tokens = o,
                   !.replyPath = TRUE, !.text = ReplyText] :
      i \in TokenCounts, o \in { Def(0), Def(1) } }
    \cup { [NoBody EXCEPT !.replyPath = TRUE, !.text = ReplyText],
           [NoBody EXCEPT !.usage = TRUE, !.input_tokens = Def(1),
                          !.replyPath = TRUE, !.text = ReplyText],
           [NoBody EXCEPT !.usage = TRUE, !.input_tokens = Def(1),
                          !.output_tokens = Def(1)],
           [NoBody EXCEPT !.usage = TRUE, !.input_tokens = Def(1),
                          !.output_tokens = Def(1), !.replyPath = TRUE] }

\* bodies of the Gemini generateContent shape (no usage accounting is read)
GeminiBodies ==
  { [NoBody EXCEPT !.replyPath = TRUE, !.text = ReplyText],
    [NoBody EXCEPT !.replyPath = TRUE],
    NoBody }

Bodies(modelKey) ==
  CASE modelKey = CLAUDE -> ClaudeBodies
    [] modelKey = GEMINI -> GeminiBodies
    [] OTHER -> OpenAIBodies

Failures ==
  { [kind |-> "transport", message |-> TransportMessage, data |-> NoData, body |-> NoBody] }
    \cup { [kind |-> "status", message |-> StatusMessage, data |-> d, body |-> NoBody] :
             d \in Payloads }

NetOutcomes(modelKey) ==
  Failures \cup { [kind |-> "ok", message |-> <<>>, data |-> NoData, body |-> b] :
                    b \in Bodies(modelKey) }

\* ---------------------------------------------------------------- callApi
JSONstringify(data) ==
  <<"{","\"","e","r","r","o","r","\"",":","\"">> \o data.error \o <<"\"","}">>

NoError == [name |-> "", message |-> <<>>, hasResponse |-> FALSE, data |-> NoData]
NoRequest == << >>

Returned(message, cost, requests) ==
  [threw |-> FALSE, message |-> message, cost |-> cost, error |-> NoError,
   requests |-> requests]
Thrown(error, requests) ==
  [threw |-> TRUE, message |-> NoText, cost |-> NaN, error |-> error,
   requests |-> requests]

\* reading a property of undefined
TypeError ==
  [name |-> "TypeError", message |-> TypeErrorMessage, hasResponse |-> FALSE,
   data |-> NoData]

\* axios.post rejects with an error carrying message and, when a response was
\* received, response.data
axiosError(net) ==
  [name |-> "AxiosError", message |-> net.message,
   hasResponse |-> net.kind = "status", data |-> net.data]

\* the Anthropic SDK rejects with an error that has no response property; for
\* a non-success status its message is the status and the serialized payload
anthropicError(net) ==
  [name |-> "APIError",
   message |-> IF net.kind = "status"
                 THEN StatusCode \o <<" ">> \o JSONstringify(net.data)
                 ELSE net.message,
   hasResponse |-> FALSE, data |-> NoData]

\* (tokenCount / 1000000) * pricePerMillion, as a numerator over
\* CostDenominator; tokenTenths is the token count in tenths
Cost(tokenTenths, pricePerMillion) == Mul(tokenTenths, pricePerMillion)

ChatRequest(url, model, messageHistory) ==
  [url |-> url, model |-> model, messages |-> messageHistory, contents |-> << >>]

\* variant: only the last two turns are sent
geminiMessagesWindowed(messageHistory) ==
  LET n == Len(messageHistory)
      kept == IF n > 2 THEN SubSeq(messageHistory, n - 1, n) ELSE messageHistory
  IN [ i \in 1..Len(kept) |->
         [role |-> IF kept[i].role = "assistant" THEN "model" ELSE "user",
          parts |-> << [text |-> kept[i].content] >>] ]

geminiMessages(messageHistory) ==
  [ i \in 1..Len(messageHistory) |->
      [role |-> IF messageHistory[i].role = "assistant" THEN "model" ELSE "user",
       parts |-> << [text |-> messageHistory[i].content] >>] ]

GeminiRequest(messageHistory) ==
  [url |-> "generativelanguage.googleapis.com/v1beta/models/gemini-pro:generateContent",
   model |-> "gemini-pro", messages |-> << >>,
   contents |-> geminiMessages(messageHistory)]

\* the requests callApi issues before it suspends: one for a known modelKey,
\* none in the default case
outbound(modelKey, messageHistory) ==
  CASE modelKey = LLAMA ->
         << ChatRequest("api.groq.com/openai/v1/chat/completions",
                        "llama3-groq-70b-8192-tool-use-preview", messageHistory) >>
    [] modelKey = CHATGPT ->
         << ChatRequest("api.openai.com/v1/chat/completions", "gpt-4", messageHistory) >>
    [] modelKey = CLAUDE ->
         << ChatRequest("anthropic.messages.create", "claude-3-sonnet-20240229",
                        messageHistory) >>
    [] modelKey = GEMINI -> << GeminiRequest(messageHistory) >>
    [] OTHER -> NoRequest

RECURSIVE contentLength(_)
\* messageHistory.reduce((acc, msg) => acc + msg.content.length, 0)
contentLength(messageHistory) ==
  IF messageHistory = << >> THEN 0
  ELSE Len(Head(messageHistory).content.v) + contentLength(Tail(messageHistory))

\* msg.content.length throws when a content is undefined
LengthThrows(messageHistory) ==
  \E i \in 1..Len(messageHistory) : ~messageHistory[i].content.def

\* the reported total, usage.total_tokens
OpenAITokenCount(body) == Mul(Num(TokenScale), ToNumber(body.total_tokens))

OpenAIAdapter(requests, pricePerMillion, net) ==
  IF net.kind # "ok" THEN Thrown(axiosError(net), requests)
  ELSE IF ~net.body.usage THEN Thrown(TypeError, requests)
  ELSE IF ~net.body.replyPath THEN Thrown(TypeError, requests)
  ELSE Returned(net.body.text, Cost(OpenAITokenCount(net.body), pricePerMillion),
                requests)

\* variant: the input tokens are left out
ClaudeTokenCountOutputOnly(body) ==
  Mul(Num(TokenScale), ToNumber(body.output_tokens))

\* usage.input_tokens + usage.output_tokens
ClaudeTokenCount(body) ==
  Mul(Num(TokenScale), Add(ToNumber(body.input_tokens), ToNumber(body.output_tokens)))

ClaudeAdapter(requests, pricePerMillion, net) ==
  IF net.kind # "ok" THEN Thrown(anthropicError(net), requests)
  ELSE IF ~net.body.usage THEN Thrown(TypeError, requests)
  ELSE IF ~net.body.replyPath THEN Thrown(TypeError, requests)
  ELSE Returned(net.body.text, Cost(ClaudeTokenCount(net.body), pricePerMillion),
                requests)

\* the estimate: the summed content lengths times 1.3
GeminiTokenCount(messageHistory) ==
  Mul(Num(contentLength(messageHistory)), Num(GeminiFactor))

GeminiAdapter(requests, messageHistory, pricePerMillion, net) ==
  IF net.kind # "ok" THEN Thrown(axiosError(net), requests)
  ELSE IF LengthThrows(messageHistory) THEN Thrown(TypeError, requests)
  ELSE IF ~net.body.replyPath THEN Thrown(TypeError, requests)
  ELSE Returned(net.body.text, Cost(GeminiTokenCount(messageHistory), pricePerMillion),
                requests)

\* the switch on modelKey, inside the try
dispatch(modelKey, messageHistory, pricePerMillion, net) ==
  LET requests == outbound(modelKey, messageHistory)
  IN CASE modelKey = LLAMA -> OpenAIAdapter(requests, pricePerMillion, net)
       [] modelKey = CHATGPT -> OpenAIAdapter(requests, pricePerMillion, net)
       [] modelKey = CLAUDE -> ClaudeAdapter(requests, pricePerMillion, net)
       [] modelKey = GEMINI ->
            GeminiAdapter(requests, messageHistory, pricePerMillion, net)
       [] OTHER ->
            Thrown([name |-> "Error", message |-> InvalidModelMessage,
                    hasResponse |-> FALSE, data |-> NoData], requests)

FailedPrefix ==
  <<"F","a","i","l","e","d"," ","t","o"," ","g","e","t"," ","r","e","s","p","o","n","s","e",
    " ","f","r","o","m"," ">>

\* the catch of callApi: every error thrown in the switch is replaced by
\* new Error(`Failed to get response from ${modelKey}: ...`)
normalize(modelKey, error) ==
  [name |-> "Error",
   message |-> FailedPrefix \o modelKey \o <<":"," ">>
                 \o (IF error.hasResponse THEN JSONstringify(error.data)
                                          ELSE error.message),
   hasResponse |-> FALSE, data |-> NoData]

callApi(modelKey, messageHistory, net) ==
  LET pricePerMillion == parseFloat(envLookup(PriceVar(modelKey)))
      r == dispatch(modelKey, messageHistory, pricePerMillion, net)
  IN IF r.threw THEN Thrown(normalize(modelKey, r.error), r.requests) ELSE r

\* ------------------------------------------------------------ the component
VARIABLES
  selectedModel,   \* useState(models[0])
  input,           \* useState('')
  messages,        \* useState([])
  apiCosts,        \* useState({LLAMA: 0, CHATGPT: 0, CLAUDE: 0, GEMINI: 0})
  inflight,        \* the sendMessage invocations suspended at await callApi
  issued,          \* number of submissions made so far
  lastEvent,       \* what the last step was, and the call result it handled
  charged,         \* per provider, the costs returned by successful calls sent to it
  settled,         \* the error turns appended while no other call was in flight
  gw               \* a direct call of the gateway: its arguments and its result

vars == << env, selectedModel, input, messages, apiCosts, inflight, issued,
           lastEvent, charged, settled, gw >>

\* what the user types
Inputs == { <<"h","i"," ">> }

\* the configurations of a session: the four prices set alike, to a positive
\* number, to a negative number, or left out
Configs ==
  { [ n \in { PriceVar(k) : k \in Keys } |-> e ] :
      e \in { Def(<<"3">>), Def(<<"-","2">>), NoText } }

\* what the network answers a call of the component: a failure, a body that
\* reports the largest token count, or a body whose token count is missing
Answers(modelKey) ==
  { net \in NetOutcomes(modelKey) :
      \/ net.kind = "transport"
      \/ /\ net.kind = "ok" /\ net.body.replyPath /\ net.body.text.def
         /\ net.body.total_tokens \in { Def(MaxTokens), Undefined }
         /\ net.body.input_tokens \in { Def(MaxTokens), Undefined }
         /\ net.body.output_tokens \in { Def(1), Undefined } }

ErrorPrefix == <<"E","r","r","o","r",":"," ">>

NoCall == [id |-> 0, selectedModel |-> models[1], updatedMessages |-> << >>,
           apiCosts |-> [k \in Keys |-> Zero], requests |-> NoRequest]
NoResult == Returned(NoText, NaN, NoRequest)
NoEvent == [type |-> "none", call |-> NoCall, result |-> NoResult]

GwIdle == [pc |-> "idle", modelKey |-> LLAMA, messageHistory |-> << >>,
           net |-> CHOOSE f \in Failures : f.kind = "transport", result |-> NoResult]

\* the provider a request goes to, read from its endpoint
SentTo(request) ==
  CASE request.url = "api.groq.com/openai/v1/chat/completions" -> LLAMA
    [] request.url = "api.openai.com/v1/chat/completions" -> CHATGPT
    [] request.url = "anthropic.messages.create" -> CLAUDE
    [] OTHER -> GEMINI

AppInit ==
  /\ selectedModel = models[1]
  /\ input = << >>
  /\ messages = << >>
  /\ apiCosts = [k \in Keys |-> Zero]
  /\ inflight = {}
  /\ issued = 0
  /\ lastEvent = NoEvent
  /\ charged = [k \in Keys |-> Zero]
  /\ settled = {}

Init ==
  /\ env \in Configs
  /\ AppInit
  /\ gw = GwIdle

\* onChange of the text box
SetInput(text) ==
  /\ issued < MaxCalls
  /\ input' = text
  /\ lastEvent' = NoEvent
  /\ UNCHANGED << env, selectedModel, messages, apiCosts, inflight, issued,
                  charged, settled, gw >>

\* onClick of a model card
SetSelectedModel(model) ==
  /\ selectedModel' = model
  /\ lastEvent' = NoEvent
  /\ UNCHANGED << env, input, messages, apiCosts, inflight, issued,
                  charged, settled, gw >>

\* sendMessage up to its await: the invocation keeps the selectedModel,
\* messages and apiCosts of the render it was created in
SendMessage ==
  /\ trim(input) # << >>
  /\ issued < MaxCalls
  /\ LET userMessage == [role |-> "user", content |-> Def(input)]
         updatedMessages == Append(messages, userMessage)
         call == [id |-> issued + 1, selectedModel |-> selectedModel,
                  updatedMessages |-> updatedMessages, apiCosts |-> apiCosts,
                  requests |-> outbound(selectedModel.key, updatedMessages)]
     IN /\ messages' = updatedMessages
        /\ input' = << >>
        /\ inflight' = inflight \cup { call }
        /\ issued' = issued + 1
        /\ lastEvent' = NoEvent
  /\ UNCHANGED << env, selectedModel, apiCosts, charged, settled, gw >>

\* variant: the entry of the provider selected when the call resolves
costsUpdaterSelected(prevCosts, call, cost) ==
  [prevCosts EXCEPT ![selectedModel.key] = Add(prevCosts[selectedModel.key], cost)]

\* variant: the ledger captured when the call was issued is the base
costsUpdaterStale(prevCosts, call, cost) ==
  [call.apiCosts EXCEPT ![call.selectedModel.key] =
                          Add(call.apiCosts[call.selectedModel.key], cost)]

\* the updater passed to setApiCosts, applied to the ledger's latest value
costsUpdater(prevCosts, call, cost) ==
  [prevCosts EXCEPT ![call.selectedModel.key] =
                       Add(prevCosts[call.selectedModel.key], cost)]

\* variant: the ledger is updated after the try, for a failed call too
resumeChargingFailure(call, r, prevCosts) ==
  [messages |-> Append(call.updatedMessages,
                       [role |-> "assistant",
                        content |-> IF r.threw THEN Def(ErrorPrefix \o r.error.message)
                                               ELSE r.message]),
   apiCosts |-> [prevCosts EXCEPT ![call.selectedModel.key] =
                                    Add(prevCosts[call.selectedModel.key], r.cost)]]

\* variant: the catch only logs, the error is not put in the history
resumeHidingError(call, r, prevCosts) ==
  IF ~r.threw
    THEN [messages |-> Append(call.updatedMessages,
                              [role |-> "assistant", content |-> r.message]),
          apiCosts |-> [prevCosts EXCEPT ![call.selectedModel.key] =
                                           Add(prevCosts[call.selectedModel.key], r.cost)]]
    ELSE [messages |-> call.updatedMessages, apiCosts |-> prevCosts]

\* sendMessage after its await: the try's continuation, or the catch
resume(call, r, prevCosts) ==
  IF ~r.threw
    THEN [messages |-> Append(call.updatedMessages,
                              [role |-> "assistant", content |-> r.message]),
          apiCosts |-> costsUpdater(prevCosts, call, r.cost)]
    ELSE [messages |-> Append(call.updatedMessages,
                              [role |-> "assistant",
                               content |-> Def(ErrorPrefix \o r.error.message)]),
          apiCosts |-> prevCosts]

\* the call of one suspended invocation resolves or rejects
Complete(call, net) ==
  /\ call \in inflight
  /\ LET r == callApi(call.selectedModel.key, call.updatedMessages, net)
         next == resume(call, r, apiCosts)
         to == SentTo(call.requests[1])
     IN /\ messages' = next.messages
        /\ apiCosts' = next.apiCosts
        /\ inflight' = inflight \ { call }
        /\ lastEvent' = [type |-> IF r.threw THEN "failure" ELSE "success",
                         call |-> call, result |-> r]
        /\ charged' = IF r.threw THEN charged
                      ELSE [charged EXCEPT ![to] = Add(charged[to], r.cost)]
        /\ settled' = IF r.threw /\ inflight = { call }
                        THEN settled \cup { [at |-> Len(next.messages),
                                             content |-> ErrorPrefix \o r.error.message] }
                        ELSE settled
  /\ UNCHANGED << env, selectedModel, input, issued, gw >>

Next ==
  \/ \E text \in Inputs : SetInput(text)
  \/ \E i \in 1..Len(models) : SetSelectedModel(models[i])
  \/ SendMessage
  \/ \E call \in inflight : \E net \in Answers(call.selectedModel.key) :
       Complete(call, net)

Spec == Init /\ [][Next]_vars

\* ------------------------------------------------- the gateway, called alone
\* callApi applied to arguments drawn from bounded sets: any modelKey, also
\* one that is no provider, any history, any answer of the network.
Contents == { Def(<<"h","i">>), Def(<< >>) }
Turns == [role : {"user", "assistant"}, content : Contents]
Histories ==
  UNION { [1..n -> Turns] : n \in 0..MaxHistory }
    \cup { << [role |-> "user", content |-> NoText] >> }

\* configurations in which the providers' prices differ
BaseEnv == [ n \in { PriceVar(k) : k \in Keys } |-> Def(<<"3">>) ]
GatewayConfigs ==
  { [BaseEnv EXCEPT ![PriceVar(k)] = e] : k \in Keys, e \in PriceEntries }

GatewayInit ==
  /\ env \in GatewayConfigs
  /\ AppInit
  /\ \E modelKey \in Keys \cup { MISTRAL } :
       \E messageHistory \in Histories : \E net \in NetOutcomes(modelKey) :
         gw = [pc |-> "ready", modelKey |-> modelKey,
               messageHistory |-> messageHistory, net |-> net, result |-> NoResult]

GatewayCall ==
  /\ gw.pc = "ready"
  /\ gw' = [gw EXCEPT !.pc = "done",
                      !.result = callApi(gw.modelKey, gw.messageHistory, gw.net)]
  /\ UNCHANGED << env, selectedModel, input, messages, apiCosts, inflight, issued,
                  lastEvent, charged, settled >>

GatewayNext == GatewayCall

SpecGateway == GatewayInit /\ [][GatewayNext]_vars

\* ================================================================== claims
\* the provider the call handled by the last step was sent to
LastSentTo == SentTo(lastEvent.call.requests[1])

\* ------------------------------------------------------------------- C1
\* C1: a step that handles a successful call adds the returned cost to the
\* ledger entry of the provider the call's request went to, and leaves every
\* other entry as it was, whatever provider is selected by then.
C1_CostGoesToCalledProvider ==
  [][ lastEvent'.type = "success" /\ lastEvent' # lastEvent =>
        LET to == SentTo(lastEvent'.call.requests[1])
        IN apiCosts' = [apiCosts EXCEPT ![to] = Add(apiCosts[to], lastEvent'.result.cost)]
    ]_vars

\* a successful call has resolved while another provider was selected, and
\* its provider's entry holds its cost
C1_Witness ==
  /\ lastEvent.type = "success"
  /\ selectedModel.key # LastSentTo
  /\ apiCosts[LastSentTo] = lastEvent.result.cost
  /\ ~lastEvent.result.cost.nan /\ lastEvent.result.cost.v > 0
  /\ apiCosts[selectedModel.key] = Zero

\* ------------------------------------------------------------------- C2
\* C2: a step that handles a failed call leaves every entry of the ledger as
\* it was.
C2_FailureChargesNothing ==
  [][ lastEvent'.type = "failure" /\ lastEvent' # lastEvent => apiCosts' = apiCosts ]_vars

\* a call has failed in a session whose ledger already holds a charge
C2_Witness ==
  /\ lastEvent.type = "failure"
  /\ \E k \in Keys : apiCosts[k] # Zero

\* ------------------------------------------------------------------- C3
\* C3: every step leaves the earlier history a prefix of the later one.
C3_HistoryOnlyGrows == [][ IsPrefix(messages, messages') ]_vars

\* ------------------------------------------------------------------- C4
\* C4: every entry starts at zero, no step makes an entry smaller, and an
\* entry changes only in a step that handles a successful call to its provider.
C4_LedgerMonotone ==
  [][ \A k \in Keys :
        /\ Geq(apiCosts'[k], apiCosts[k])
        /\ apiCosts'[k] # apiCosts[k] =>
             lastEvent'.type = "success" /\ SentTo(lastEvent'.call.requests[1]) = k
    ]_vars

\* ------------------------------------------------------------------- C5
\* an error of the normalized form callApi gives a provider failure
IsProviderCallError(error, modelKey) ==
  /\ error.name = "Error"
  /\ IsPrefix(FailedPrefix \o modelKey \o <<":"," ">>, error.message)

\* C5: called with a modelKey that is no provider, callApi fails, issues no
\* request, and its error is not of the form used for provider failures.
C5_InvalidProviderIsDistinct ==
  gw.pc = "done" /\ gw.modelKey \notin Keys =>
    /\ gw.result.threw
    /\ gw.result.requests = << >>
    /\ ~IsProviderCallError(gw.result.error, gw.modelKey)

\* ------------------------------------------------------------------- C6
\* a success body in which a field the adapter reads is missing
Malformed(modelKey, body) ==
  \/ ~body.replyPath
  \/ ~body.text.def
  \/ modelKey \in { LLAMA, CHATGPT } /\ (~body.usage \/ ~body.total_tokens.def)
  \/ modelKey = CLAUDE
       /\ (~body.usage \/ ~body.input_tokens.def \/ ~body.output_tokens.def)

\* C6: for a provider, a transport failure, a non-success status or a
\* malformed success body makes callApi fail with an error whose message
\* holds the provider id and the transport message or the serialized payload.
C6_EveryFailureIsRaised ==
  gw.pc = "done" /\ gw.modelKey \in Keys
    /\ (gw.net.kind # "ok" \/ Malformed(gw.modelKey, gw.net.body)) =>
    /\ gw.result.threw
    /\ Contains(gw.result.error.message, gw.modelKey)
    /\ (gw.net.kind = "transport" =>
          Contains(gw.result.error.message, gw.net.message))
    /\ (gw.net.kind = "status" =>
          Contains(gw.result.error.message, JSONstringify(gw.net.data)))

\* ------------------------------------------------------------------- C7
GeminiRole(role) == IF role = "assistant" THEN "model" ELSE "user"

\* C7: for a provider, callApi issues one request, and it carries the turns
\* of the history it was given: as they are for LLAMA, CHATGPT and CLAUDE;
\* for GEMINI one entry per turn, at the turn's position, with the turn's text
\* and the role translated.
C7_RequestCarriesHistory ==
  gw.pc = "done" /\ gw.modelKey \in Keys =>
    /\ Len(gw.result.requests) = 1
    /\ LET request == gw.result.requests[1]
           history == gw.messageHistory
       IN IF gw.modelKey = GEMINI
            THEN /\ Len(request.contents) = Len(history)
                 /\ \A i \in 1..Len(history) :
                      /\ request.contents[i].role = GeminiRole(history[i].role)
                      /\ request.contents[i].parts = << [text |-> history[i].content] >>
            ELSE request.messages = history

\* the three-turn history user, assistant, user has been sent to GEMINI
C7_Witness ==
  /\ gw.pc = "done" /\ gw.modelKey = GEMINI
  /\ Len(gw.messageHistory) = 3
  /\ gw.messageHistory[1].role = "user"
  /\ gw.messageHistory[2].role = "assistant"
  /\ gw.messageHistory[3].role = "user"
  /\ gw.result.requests[1].contents[2].role = "model"

\* ------------------------------------------------------------------- C8
\* the token count the claim names for a provider, in tenths
ClaimedTokens(modelKey, messageHistory, body) ==
  CASE modelKey = CLAUDE ->
         Mul(Num(TokenScale),
             Add(ToNumber(body.input_tokens), ToNumber(body.output_tokens)))
    [] modelKey = GEMINI ->
         Num(GeminiFactor * contentLength(messageHistory))
    [] OTHER -> Mul(Num(TokenScale), ToNumber(body.total_tokens))

ConfiguredPrice(modelKey) == parseFloat(env[PriceVar(modelKey)])

\* the cost is the claimed token count times the provider's own price, and is
\* not negative when neither of them is
CostFormula ==
  gw.pc = "done" /\ gw.modelKey \in Keys /\ ~gw.result.threw =>
    LET tokens == ClaimedTokens(gw.modelKey, gw.messageHistory, gw.net.body)
        price == ConfiguredPrice(gw.modelKey)
    IN /\ gw.result.cost = Mul(tokens, price)
       /\ Geq(price, Zero) /\ Geq(tokens, Zero) => Geq(gw.result.cost, Zero)

C9_NoIncrementLost ==
  inflight = {} => \A k \in Keys : apiCosts[k] = charged[k]

\* two calls to one provider overlapped, the first resolved last, both were
\* charged
C9_Witness ==
  /\ inflight = {} /\ issued = 2
  /\ lastEvent.type = "success" /\ lastEvent.call.id = 1
  /\ ~lastEvent.result.cost.nan /\ lastEvent.result.cost.v > 0
  /\ ~apiCosts[LastSentTo].nan
  /\ apiCosts[LastSentTo].v > lastEvent.result.cost.v

\* ------------------------------------------------------------------ C10
\* the turn a request carries at a position, as a message of the history
TurnAt(request, i) ==
  IF request.contents # << >>
    THEN [role |-> IF request.contents[i].role = "model" THEN "assistant" ELSE "user",
          content |-> request.contents[i].parts[1].text]
    ELSE request.messages[i]

\* C10: the step that handles a failed call appends 'Error: ' and the error's
\* message as an assistant message; and an error appended while no other call
\* was in flight is, in the request of every call issued later, an assistant
\* turn at the position it was appended at.
C10_ErrorsAreReplayed ==
  /\ lastEvent.type = "failure" =>
       messages = Append(lastEvent.call.updatedMessages,
                         [role |-> "assistant",
                          content |-> Def(ErrorPrefix \o lastEvent.result.error.message)])
  /\ \A e \in settled : \A call \in inflight :
       /\ Len(call.updatedMessages) > e.at
       /\ TurnAt(call.requests[1], e.at) =
            [role |-> "assistant", content |-> Def(e.content)]

\* a call issued after a failure is in flight, to GEMINI
C10_Witness ==
  \E e \in settled : \E call \in inflight :
    /\ call.selectedModel.key = GEMINI
    /\ call.requests[1].contents[e.at].role = "model"
    /\ call.requests[1].contents[e.at].parts[1].text = Def(e.content)

====
